---- MODULE Spec2Model ----
(***************************************************************************)
(* Model of the ATA PIO disk driver kernel/src/drivers/disk/ata_pio.rs     *)
(* (AtaDrive: new, seek, read, write, flush) together with the device it   *)
(* drives through its ports, the callers of its test module and the mutex  *)
(* through which they reach the drive.                                     *)
(*                                                                         *)
(* One step of the model is one stretch of driver code between two points  *)
(* where the driver waits for the device (wait_status); the port accesses  *)
(* of a stretch are appended, in program order, to `trace`.                *)
(*                                                                         *)
(* Scale: a sector holds SectorWords 16-bit words instead of 256, so       *)
(* SectorSize stands for the source's 512, SectorSize - 1 for its mask 511 *)
(* (x & 511 is x % SectorSize, x / 512 is x \div SectorSize).  Bytes, u16  *)
(* words and the u8 sector count keep their widths.                        *)
(***************************************************************************)
EXTENDS Integers, Sequences, FiniteSets, TLC

\* ------------------------------------------------------------- bounds
\* words per sector in the model (type Sector = [u16; 256] in the source)
SectorWords == 2
\* largest cursor a caller seeks to or starts a big transfer from
MaxPos == 5
\* largest ordinary buffer length
MaxLen == 5
\* calls made by the unconstrained caller
MaxCalls == 2
\* rounds of tests::write_verify, and reads of the caller that re-reads
Reps == 2
\* distinct buffer contents a caller writes
NumSeeds == 1

\* ----------------------------------------------------- program constants
\* range of u8 (bytes, the sector count, both halves of a u16 word)
U8 == 256
\* StatusBits::Busy
Busy == 128
\* StatusBits::RwReady
RwReady == 8
\* Command::Read
CmdRead == 32
\* Command::Write
CmdWrite == 48
\* Command::CacheFlush
CmdCacheFlush == 231
\* status of a floating bus, no drive attached
Floating == 255
\* sector indices the task file can hold: 4 bits of drive-select, 3 bytes
Lba28 == 268435456

SectorSize == 2 * SectorWords

\* lengths callers use: the ordinary ones, and the first two lengths whose
\* sector count no longer fits the u8 that min_required_sector_count returns
Lens == (0 .. MaxLen) \cup {U8 * SectorSize, U8 * SectorSize + 1}

\* sector indices far from the start of the disk: the last one of 24 bits,
\* the first one that needs the drive-select nibble, one with all four
\* fields different, the last one of 28 bits, and one past it
FarLbas == {(Lba28 \div 16) - 1, Lba28 \div 16, 94619617, Lba28 - 1, Lba28 + 5}

\* a cursor in each of those sectors, unaligned in the odd ones
FarPositions == {(l * SectorSize) + (l % 2) : l \in FarLbas}

\* bytes of disk the model keeps as state; everything beyond keeps ACTUAL
DiskSize == SectorSize * ((MaxPos + Reps * MaxLen) \div SectorSize + 1)

\* ------------------------------------------------------------ data
\* tests::ACTUAL, the factory contents of the drive (odd byte values)
ACTUAL(a) == 1 + 2 * (((a % 125) * 7) % 125)

\* the bytes a caller writes (even, non-zero byte values)
Pattern(seed, j) == 2 + 2 * ((seed * 37 + j * 11) % 125)

WriteBuffer(seed, len) == [j \in 1 .. len |-> Pattern(seed, j - 1)]

\* a fresh destination buffer, [0; COUNT]
Zeroes(len) == [j \in 1 .. len |-> 0]

None == << >>
Some(x) == << x >>
unwrap(o) == o[1]

NoArg == [kind |-> "none", off |-> 0]
NoRet == [tag |-> "none", val |-> 0]
Ok(v) == [tag |-> "ok", val |-> v]
Err == [tag |-> "err", val |-> 0]

\* ------------------------------------------------- pure driver functions
\* StatusBits::is_set
is_set(bit, val) == (val \div bit) % 2 = 1

\* AtaDrive::is_sector_aligned: value & 511 == 0
is_sector_aligned(value) == value % SectorSize = 0

\* AtaDrive::pos_aligned
pos_aligned(pos) == is_sector_aligned(pos)

\* AtaDrive::calc_lba
calc_lba(pos) == pos \div SectorSize

Bit(b) == IF b THEN 1 ELSE 0

\* min_required_sector_count without the `&& bytes != 0` of its first line
min_required_zero_aligned(pos, bytes) ==
    LET sector_aligned == is_sector_aligned(bytes)
        bleeds_into_next ==
            IF sector_aligned
            THEN ~pos_aligned(pos)
            ELSE (pos % SectorSize) + (bytes % SectorSize) > SectorSize
    IN  (((bytes \div SectorSize) % U8) + Bit(bleeds_into_next)
            + Bit(~sector_aligned)) % U8

\* AtaDrive::min_required_sector_count; `as u8` truncates bytes / 512, and
\* the u8 sum wraps (no input of the model makes the sum itself overflow)
min_required_sector_count(pos, bytes) ==
    LET sector_aligned == is_sector_aligned(bytes) /\ bytes # 0
        bleeds_into_next ==
            IF sector_aligned
            THEN ~pos_aligned(pos)
            ELSE (pos % SectorSize) + (bytes % SectorSize) > SectorSize
    IN  (((bytes \div SectorSize) % U8) + Bit(bleeds_into_next)
            + Bit(~sector_aligned)) % U8

\* one port access, with the cursor at the time of the access
Ev(port, dir, val, pos) == [port |-> port, dir |-> dir, val |-> val, pos |-> pos]

\* before_read_write selecting the drive without bits 24..27 of the LBA
before_read_write_no_nibble(pos, st, sc, cmd) ==
    LET lba == calc_lba(pos)
    IN  << Ev("Status", "r", st, pos),
           Ev("DriveSel", "w", 240, pos),
           Ev("SectorCount", "w", sc, pos),
           Ev("LbaLow", "w", lba % U8, pos),
           Ev("LbaMid", "w", (lba \div U8) % U8, pos),
           Ev("LbaHigh", "w", (lba \div (U8 * U8)) % U8, pos),
           Ev("Status", "w", cmd, pos) >>

\* before_read_write writing LBA-high ahead of LBA-mid
before_read_write_high_first(pos, st, sc, cmd) ==
    LET lba == calc_lba(pos)
    IN  << Ev("Status", "r", st, pos),
           Ev("DriveSel", "w", 240 + ((lba \div 16777216) % 16), pos),
           Ev("SectorCount", "w", sc, pos),
           Ev("LbaLow", "w", lba % U8, pos),
           Ev("LbaHigh", "w", (lba \div (U8 * U8)) % U8, pos),
           Ev("LbaMid", "w", (lba \div U8) % U8, pos),
           Ev("Status", "w", cmd, pos) >>

\* AtaDrive::before_read_write followed by AtaDrive::send_command: the poll
\* that saw the busy bit clear, the five task-file writes, the command byte
before_read_write(pos, st, sc, cmd) ==
    LET lba == calc_lba(pos)
    IN  << Ev("Status", "r", st, pos),
           Ev("DriveSel", "w", 240 + ((lba \div 16777216) % 16), pos),
           Ev("SectorCount", "w", sc, pos),
           Ev("LbaLow", "w", lba % U8, pos),
           Ev("LbaMid", "w", (lba \div U8) % U8, pos),
           Ev("LbaHigh", "w", (lba \div (U8 * U8)) % U8, pos),
           Ev("Status", "w", cmd, pos) >>

\* index of the word's low byte in the caller's buffer (may be negative)
word_index(sector_i, word, sector_offset) ==
    ((sector_i * SectorWords + word) * 2) - sector_offset

\* the destination buffer after one word has been read: the match of read()
\* (buf[0] with an empty buffer is an index out of bounds, a panic)
read_word(b, index, read) ==
    LET buf_len == Len(b)
    IN  IF index = -1
        THEN IF buf_len = 0
             THEN [panic |-> TRUE, buf |-> b]
             ELSE [panic |-> FALSE, buf |-> [b EXCEPT ![1] = read \div U8]]
        ELSE IF index < -1
        THEN [panic |-> FALSE, buf |-> b]
        ELSE IF index + 1 < buf_len
        THEN [panic |-> FALSE,
              buf |-> [b EXCEPT ![index + 1] = read % U8,
                                ![index + 2] = read \div U8]]
        ELSE IF index < buf_len
        THEN [panic |-> FALSE, buf |-> [b EXCEPT ![index + 1] = read % U8]]
        ELSE [panic |-> FALSE, buf |-> b]

\* the inner loop of read() over the words of one sector, from `word` on;
\* n is the number of words taken from the data port
RECURSIVE read_words(_, _, _, _, _)
read_words(b, data, sector_i, word, sector_offset) ==
    IF word = SectorWords
    THEN [panic |-> FALSE, buf |-> b, n |-> word]
    ELSE LET r == read_word(b, word_index(sector_i, word, sector_offset),
                            data[word + 1])
         IN  IF r.panic
             THEN [panic |-> TRUE, buf |-> r.buf, n |-> word + 1]
             ELSE read_words(r.buf, data, sector_i, word + 1, sector_offset)

Panic == -1

\* to_write with the words past the end of the buffer pushed as zero instead
\* of taken from the end snapshot
to_write_zero_tail(b, start, end, word, index) ==
    LET buf_len == Len(b)
    IN  IF index = -1
        THEN IF start = None \/ buf_len = 0
             THEN Panic
             ELSE (unwrap(start)[word + 1] % U8) + (b[1] * U8)
        ELSE IF index < -1
        THEN IF start = None THEN Panic ELSE unwrap(start)[word + 1]
        ELSE IF index + 1 < buf_len
        THEN b[index + 1] + (b[index + 2] * U8)
        ELSE IF index < buf_len
        THEN b[index + 1]
        ELSE 0

\* the word write() pushes: the match of write(); unwrap of None and buf[0]
\* with an empty buffer panic
to_write(b, start, end, word, index) ==
    LET buf_len == Len(b)
    IN  IF index = -1
        THEN IF start = None \/ buf_len = 0
             THEN Panic
             ELSE (unwrap(start)[word + 1] % U8) + (b[1] * U8)
        ELSE IF index < -1
        THEN IF start = None THEN Panic ELSE unwrap(start)[word + 1]
        ELSE IF index + 1 < buf_len
        THEN b[index + 1] + (b[index + 2] * U8)
        ELSE IF index < buf_len
        THEN IF end = None
             THEN Panic
             ELSE b[index + 1] + ((unwrap(end)[word + 1] \div U8) * U8)
        ELSE IF end = None THEN Panic ELSE unwrap(end)[word + 1]

\* the buffer indices one word of read() stores to: the arms of its match
read_access(index, buf_len) ==
    IF index = -1
    THEN {0}
    ELSE IF index < -1
    THEN {}
    ELSE IF index + 1 < buf_len
    THEN {index, index + 1}
    ELSE IF index < buf_len
    THEN {index}
    ELSE {}

\* the match of write() with its fourth guard written index <= buf_len
write_access_off_by_one(index, buf_len) ==
    IF index = -1
    THEN [buf |-> {0}, start |-> TRUE, end |-> FALSE]
    ELSE IF index < -1
    THEN [buf |-> {}, start |-> TRUE, end |-> FALSE]
    ELSE IF index + 1 < buf_len
    THEN [buf |-> {index, index + 1}, start |-> FALSE, end |-> FALSE]
    ELSE IF index <= buf_len
    THEN [buf |-> {index}, start |-> FALSE, end |-> TRUE]
    ELSE [buf |-> {}, start |-> FALSE, end |-> TRUE]

\* what one word of write() reads: the buffer indices, and whether the start
\* and the end snapshot are unwrapped, by the arms of its match
write_access(index, buf_len) ==
    IF index = -1
    THEN [buf |-> {0}, start |-> TRUE, end |-> FALSE]
    ELSE IF index < -1
    THEN [buf |-> {}, start |-> TRUE, end |-> FALSE]
    ELSE IF index + 1 < buf_len
    THEN [buf |-> {index, index + 1}, start |-> FALSE, end |-> FALSE]
    ELSE IF index < buf_len
    THEN [buf |-> {index}, start |-> FALSE, end |-> TRUE]
    ELSE [buf |-> {}, start |-> FALSE, end |-> TRUE]

\* the words write() computes for sector `sector_i`
write_words(b, start, end, sector_i, sector_offset) ==
    [w \in 1 .. SectorWords |->
        to_write(b, start, end, w - 1, word_index(sector_i, w - 1, sector_offset))]

\* number of words pushed before the first panic (SectorWords if none)
pushed(words) ==
    IF \E w \in 1 .. SectorWords : words[w] = Panic
    THEN (CHOOSE w \in 1 .. SectorWords :
            /\ words[w] = Panic
            /\ \A v \in 1 .. w - 1 : words[v] # Panic) - 1
    ELSE SectorWords

\* ------------------------------------------------------------ device
\* the byte at address a of a disk whose first DiskSize bytes are d
DiskAt(d, a) == IF a < DiskSize THEN d[a] ELSE ACTUAL(a)

\* the words the data port delivers for the sector at byte address ptr
DevSector(d, ptr) ==
    [w \in 1 .. SectorWords |->
        DiskAt(d, ptr + 2 * (w - 1)) + U8 * DiskAt(d, ptr + 2 * (w - 1) + 1)]

\* the disk after the device stored a sector of words at byte address ptr
Commit(d, ptr, words) ==
    [a \in DOMAIN d |->
        IF a >= ptr /\ a < ptr + SectorSize
        THEN LET w == words[((a - ptr) \div 2) + 1]
             IN  IF (a - ptr) % 2 = 0 THEN w % U8 ELSE w \div U8
        ELSE d[a]]

\* what the device makes of a task file: the 28-bit LBA and the sector count
\* (a count register of 0 asks for 256 sectors)
TaskFileLba(tf) ==
    ((tf[2].val % 16) * 16777216) + (tf[6].val * U8 * U8) + (tf[5].val * U8)
        + tf[4].val
TaskFileCount(tf) == IF tf[3].val = 0 THEN U8 ELSE tf[3].val

DataEvents(dir, words, n, pos) == [w \in 1 .. n |-> Ev("Data", dir, words[w], pos)]

\* ------------------------------------------------------------ state
VARIABLES
    \* AtaDrive and the frame of the call in progress
    position, pc, op, arg, buf, sector_count, ctx, sector,
    start_sector, end_sector, ret,
    \* the device behind the ports
    attached, status, control, dev_cmd, dev_ptr, dev_left, disk,
    \* what an observer of the call in progress has seen
    pos0, disk0, trace, last_seek,
    \* the caller
    test, hpc, count, rep, write_buf, verify_buf, calls,
    \* the mutex around the drive: the number of its guards callers hold
    guards

frameVars == << op, arg, buf, sector_count, ctx, sector, start_sector, end_sector, ret >>
devVars == << attached, status, control, dev_cmd, dev_ptr, dev_left, disk >>
clientVars == << test, hpc, count, rep, write_buf, verify_buf, calls, guards >>
vars == << position, pc, frameVars, devVars, pos0, disk0, trace, last_seek,
           clientVars >>

Init ==
    /\ position = 0
    /\ pc = "boot"
    /\ op = "none"
    /\ arg = NoArg
    /\ buf = << >>
    /\ sector_count = 0
    /\ ctx = "main"
    /\ sector = 0
    /\ start_sector = None
    /\ end_sector = None
    /\ ret = NoRet
    /\ attached \in BOOLEAN
    /\ status \in (IF attached THEN {0, Busy, 127} ELSE {Floating})
    /\ control = -1
    /\ dev_cmd = 0
    /\ dev_ptr = 0
    /\ dev_left = 0
    /\ disk = [a \in 0 .. DiskSize - 1 |-> ACTUAL(a)]
    /\ pos0 = 0
    /\ disk0 = disk
    /\ trace = << >>
    /\ last_seek = -1
    /\ test \in {"any", "write_verify", "read_twice"}
    /\ hpc = "init"
    /\ count \in (IF test = "any" THEN {0} ELSE Lens)
    /\ rep = 0
    /\ write_buf = << >>
    /\ verify_buf = Zeroes(count)
    /\ calls = 0
    /\ guards = 0

\* ------------------------------------------------------------ new
\* new with the control register reset ahead of the status check
NewResetFirst ==
    /\ pc = "boot"
    /\ op' = "new"
    /\ pc' = IF status = Floating THEN "aborted" ELSE "ret"
    /\ trace' = << Ev("Control", "w", 0, 0), Ev("Status", "r", status, 0) >>
    /\ control' = 0
    /\ position' = 0
    /\ ret' = NoRet
    /\ UNCHANGED << arg, buf, sector_count, ctx, sector, start_sector, end_sector >>
    /\ UNCHANGED << attached, status, dev_cmd, dev_ptr, dev_left, disk >>
    /\ UNCHANGED << pos0, disk0, last_seek, clientVars >>

\* AtaDrive::new: the status read, the assert_ne, the control register reset
New ==
    /\ pc = "boot"
    /\ op' = "new"
    /\ IF status = Floating
       THEN /\ pc' = "aborted"
            /\ trace' = << Ev("Status", "r", status, 0) >>
            /\ control' = control
       ELSE /\ pc' = "ret"
            /\ trace' = << Ev("Status", "r", status, 0), Ev("Control", "w", 0, 0) >>
            /\ control' = 0
    /\ position' = 0
    /\ ret' = NoRet
    /\ UNCHANGED << arg, buf, sector_count, ctx, sector, start_sector, end_sector >>
    /\ UNCHANGED << attached, status, dev_cmd, dev_ptr, dev_left, disk >>
    /\ UNCHANGED << pos0, disk0, last_seek, clientVars >>

\* ------------------------------------------------------------ callers
\* a lock() that hands out a guard without looking whether one is out
LockAnyway ==
    /\ pc \notin {"boot", "aborted"}
    /\ guards' = IF guards = 0 THEN 1 ELSE 2
    /\ UNCHANGED << position, pc, frameVars, devVars, pos0, disk0, trace, last_seek >>
    /\ UNCHANGED << test, hpc, count, rep, write_buf, verify_buf, calls >>

\* BUS.lock(): a caller gets the guard of the mutex once no caller holds it
Lock ==
    /\ pc \notin {"boot", "aborted"}
    /\ guards = 0
    /\ guards' = 1
    /\ UNCHANGED << position, pc, frameVars, devVars, pos0, disk0, trace, last_seek >>
    /\ UNCHANGED << test, hpc, count, rep, write_buf, verify_buf, calls >>

\* a guard goes out of scope: between two calls of the unconstrained
\* caller, at the end of the test function otherwise
Unlock ==
    /\ pc = "idle"
    /\ guards >= 1
    /\ test = "any" \/ hpc = "done"
    /\ guards' = guards - 1
    /\ UNCHANGED << position, pc, frameVars, devVars, pos0, disk0, trace, last_seek >>
    /\ UNCHANGED << test, hpc, count, rep, write_buf, verify_buf, calls >>

\* whether the caller makes a call of this kind now: any call while the
\* unconstrained caller has calls left, or the next call of write_verify or
\* of the caller that reads, seeks back and reads again
MayCall(kind) ==
    /\ pc = "idle"
    /\ guards >= 1
    /\ IF test = "any" THEN calls < MaxCalls ELSE hpc = kind

\* the transfer stays on the part of the disk the model keeps
InRange(len) ==
    IF len > MaxLen THEN position <= MaxPos ELSE position + len < DiskSize

\* a read of an ordinary length far from the start of the disk
FarRead(len) == position \in FarPositions /\ len <= MaxLen

Begin(o, a) ==
    /\ op' = o
    /\ arg' = a
    /\ pos0' = position
    /\ disk0' = disk
    /\ calls' = IF test = "any" THEN calls + 1 ELSE calls
    /\ UNCHANGED << test, hpc, count, rep, verify_buf, guards >>

\* seek with Current returning the cursor it started from
seek_stale_return(pos, a) ==
    IF a.kind = "Start"
    THEN [position |-> a.off, ret |-> Ok(a.off)]
    ELSE IF a.kind = "Current"
    THEN LET res == pos + a.off
         IN  IF res >= 0
             THEN [position |-> res, ret |-> Ok(pos)]
             ELSE [position |-> pos, ret |-> Err]
    ELSE [position |-> pos, ret |-> Err]

\* seek with Current storing the cursor before it checks the sign
seek_store_first(pos, a) ==
    IF a.kind = "Start"
    THEN [position |-> a.off, ret |-> Ok(a.off)]
    ELSE IF a.kind = "Current"
    THEN LET res == pos + a.off
         IN  IF res >= 0
             THEN [position |-> res, ret |-> Ok(res)]
             ELSE [position |-> res, ret |-> Err]
    ELSE [position |-> pos, ret |-> Err]

\* Seek::seek
seek(pos, a) ==
    IF a.kind = "Start"
    THEN [position |-> a.off, ret |-> Ok(a.off)]
    ELSE IF a.kind = "Current"
    THEN LET res == pos + a.off
         IN  IF res >= 0
             THEN [position |-> res, ret |-> Ok(res)]
             ELSE [position |-> pos, ret |-> Err]
    ELSE [position |-> pos, ret |-> Err]

SeekArgs ==
    IF test = "any"
    THEN [kind : {"Start"}, off : (0 .. MaxPos) \cup FarPositions]
            \cup [kind : {"Current"}, off : (0 - MaxLen) .. MaxLen]
            \cup [kind : {"End"}, off : {-1, 0}]
    ELSE IF hpc = "init"
    THEN [kind : {"Start"}, off : 0 .. MaxPos]
    ELSE [kind : {"Current"}, off : {0 - count}]

CallSeek ==
    /\ MayCall(IF hpc = "init" THEN "init" ELSE "seek")
    /\ \E a \in SeekArgs :
        /\ test = "any" =>
            \/ seek(position, a).position <= MaxPos
            \/ seek(position, a).position \in FarPositions
        /\ Begin("seek", a)
        /\ position' = seek(position, a).position
        /\ ret' = seek(position, a).ret
        /\ last_seek' = IF seek(position, a).ret.tag = "ok"
                        THEN seek(position, a).ret.val
                        ELSE last_seek
    /\ pc' = "ret"
    /\ trace' = << >>
    /\ UNCHANGED << buf, sector_count, ctx, sector, start_sector, end_sector >>
    /\ UNCHANGED << devVars, write_buf >>

\* Write::flush
CallFlush ==
    /\ MayCall("flush")
    /\ Begin("flush", NoArg)
    /\ ret' = Ok(0)
    /\ pc' = "ret"
    /\ trace' = << >>
    /\ UNCHANGED << position, buf, sector_count, ctx, sector, start_sector, end_sector >>
    /\ UNCHANGED << devVars, last_seek, write_buf >>

\* Read::read up to the first wait: line 202
CallRead ==
    /\ MayCall("read")
    /\ \E len \in (IF test = "any" THEN Lens ELSE {count}) :
        /\ InRange(len) \/ FarRead(len)
        /\ buf' = (IF test = "any" THEN Zeroes(len)
                   ELSE IF test = "write_verify" THEN verify_buf
                   ELSE IF rep % 2 = 0 THEN Zeroes(len)
                   ELSE WriteBuffer(1, len))
        /\ sector_count' = min_required_sector_count(position, len)
    /\ Begin("read", NoArg)
    /\ ctx' = "main"
    /\ pc' = "program"
    /\ sector' = 0
    /\ start_sector' = None
    /\ end_sector' = None
    /\ ret' = NoRet
    /\ trace' = << >>
    /\ last_seek' = -1
    /\ UNCHANGED << position, devVars, write_buf >>

\* get_partial_write_sectors reading the end sector whether or not the end
\* of the write is aligned
AfterStartAlways(len) ==
    /\ position' = position + len
    /\ ctx' = "end"

\* get_partial_write_sectors without its position -= len when no end
\* snapshot is taken
AfterStartNoRestore(len) ==
    IF ~pos_aligned(position + len)
    THEN /\ position' = position + len
         /\ ctx' = "end"
    ELSE /\ position' = position + len
         /\ ctx' = "main"

\* AtaDrive::get_partial_write_sectors once the start snapshot is decided:
\* position += len, the end snapshot if the end is unaligned, position -= len
AfterStart(len) ==
    IF ~pos_aligned(position + len)
    THEN /\ position' = position + len
         /\ ctx' = "end"
    ELSE /\ position' = (position + len) - len
         /\ ctx' = "main"

\* Write::write up to the first wait: lines 237-238
CallWrite ==
    /\ MayCall("write")
    /\ \E len \in (IF test = "any" THEN Lens ELSE {count}), seed \in 1 .. NumSeeds :
        /\ InRange(len)
        /\ buf' = WriteBuffer(seed, len)
        /\ write_buf' = (IF test = "any" THEN write_buf ELSE WriteBuffer(seed, len))
        /\ sector_count' = min_required_sector_count(position, len)
        /\ IF ~pos_aligned(position)
           THEN /\ ctx' = "start"
                /\ position' = position
           ELSE AfterStart(len)
    /\ Begin("write", NoArg)
    /\ pc' = "program"
    /\ sector' = 0
    /\ start_sector' = None
    /\ end_sector' = None
    /\ ret' = NoRet
    /\ trace' = << >>
    /\ last_seek' = -1
    /\ UNCHANGED devVars

\* ------------------------------------------------------------ the call
\* before_read_write and send_command, in read(), write() and read_sector():
\* leaves the wait for the busy bit once the device shows it clear
Program ==
    /\ pc = "program"
    /\ ~is_set(Busy, status)
    /\ LET sc == IF ctx = "main" THEN sector_count ELSE 1
           cmd == IF ctx = "main" /\ op = "write" THEN CmdWrite ELSE CmdRead
           tf == before_read_write(position, status, sc, cmd)
       IN  /\ trace' = trace \o tf
           /\ dev_cmd' = cmd
           /\ dev_ptr' = TaskFileLba(tf) * SectorSize
           /\ dev_left' = TaskFileCount(tf)
    /\ status' = Busy
    /\ pc' = IF ctx = "main" /\ sector_count = 0 THEN "finish" ELSE "wait_busy"
    /\ sector' = 0
    /\ UNCHANGED << position, op, arg, buf, sector_count, ctx, start_sector, end_sector, ret >>
    /\ UNCHANGED << attached, control, disk, pos0, disk0, last_seek, clientVars >>

\* wait_ready, first half: wait_status(Busy, false)
WaitBusy ==
    /\ pc = "wait_busy"
    /\ ~is_set(Busy, status)
    /\ pc' = "wait_rw"
    /\ trace' = Append(trace, Ev("Status", "r", status, position))
    /\ UNCHANGED << position, frameVars, devVars, pos0, disk0, last_seek, clientVars >>

\* the device after the host moved one sector of a transfer
DevAdvance ==
    /\ dev_left' = dev_left - 1
    /\ dev_ptr' = dev_ptr + SectorSize
    /\ dev_cmd' = IF dev_left = 1 THEN 0 ELSE dev_cmd
    /\ UNCHANGED << attached, control >>

\* read_sector from wait_status(RwReady, true) on, and the rest of
\* get_partial_write_sectors
SnapshotTransfer ==
    /\ pc = "wait_rw"
    /\ ctx # "main"
    /\ is_set(RwReady, status)
    /\ LET data == DevSector(disk, dev_ptr)
       IN  /\ trace' = Append(trace, Ev("Status", "r", status, position))
                          \o DataEvents("r", data, SectorWords, position)
           /\ IF ctx = "start"
              THEN /\ start_sector' = Some(data)
                   /\ end_sector' = end_sector
                   /\ AfterStart(Len(buf))
              ELSE /\ end_sector' = Some(data)
                   /\ start_sector' = start_sector
                   /\ position' = position - Len(buf)
                   /\ ctx' = "main"
    /\ DevAdvance
    /\ status' = IF dev_left = 1 THEN 0 ELSE Busy
    /\ pc' = "program"
    /\ UNCHANGED << op, arg, buf, sector_count, sector, ret >>
    /\ UNCHANGED << disk, pos0, disk0, last_seek, clientVars >>

\* read(): one round of the sector loop from wait_status(RwReady, true) on
ReadTransfer ==
    /\ pc = "wait_rw"
    /\ ctx = "main"
    /\ op = "read"
    /\ is_set(RwReady, status)
    /\ LET data == DevSector(disk, dev_ptr)
           r == read_words(buf, data, sector, 0, position % SectorSize)
       IN  /\ buf' = r.buf
           /\ trace' = Append(trace, Ev("Status", "r", status, position))
                          \o DataEvents("r", data, r.n, position)
           /\ IF r.panic
              THEN /\ pc' = "panic"
                   /\ UNCHANGED << status, dev_cmd, dev_ptr, dev_left, attached, control >>
              ELSE /\ pc' = IF sector + 1 < sector_count THEN "wait_busy" ELSE "finish"
                   /\ DevAdvance
                   /\ status' = IF dev_left = 1 THEN 0 ELSE Busy
    /\ sector' = sector + 1
    /\ UNCHANGED << position, op, arg, sector_count, ctx, start_sector, end_sector, ret >>
    /\ UNCHANGED << disk, pos0, disk0, last_seek, clientVars >>

\* write(): one round of the sector loop from wait_status(RwReady, true) on;
\* the device stores a sector once it has all its words
WriteTransfer ==
    /\ pc = "wait_rw"
    /\ ctx = "main"
    /\ op = "write"
    /\ is_set(RwReady, status)
    /\ LET words == write_words(buf, start_sector, end_sector, sector,
                                position % SectorSize)
           n == pushed(words)
       IN  /\ trace' = Append(trace, Ev("Status", "r", status, position))
                          \o DataEvents("w", words, n, position)
           /\ IF n < SectorWords
              THEN /\ pc' = "panic"
                   /\ UNCHANGED devVars
              ELSE /\ pc' = IF sector + 1 < sector_count THEN "wait_busy" ELSE "finish"
                   /\ disk' = Commit(disk, dev_ptr, words)
                   /\ DevAdvance
                   /\ status' = Busy
    /\ sector' = sector + 1
    /\ UNCHANGED << position, op, arg, buf, sector_count, ctx, start_sector, end_sector, ret >>
    /\ UNCHANGED << pos0, disk0, last_seek, clientVars >>

\* read(): lines 230-231
FinishRead ==
    /\ pc = "finish"
    /\ op = "read"
    /\ position' = position + Len(buf)
    /\ ret' = Ok(Len(buf))
    /\ pc' = "ret"
    /\ UNCHANGED << op, arg, buf, sector_count, ctx, sector, start_sector, end_sector >>
    /\ UNCHANGED << devVars, pos0, disk0, trace, last_seek, clientVars >>

\* the end of write() without its CACHE FLUSH
FinishWriteNoFlush ==
    /\ pc = "finish"
    /\ op = "write"
    /\ position' = position + Len(buf)
    /\ ret' = Ok(Len(buf))
    /\ pc' = "ret"
    /\ UNCHANGED << op, arg, buf, sector_count, ctx, sector, start_sector, end_sector >>
    /\ UNCHANGED << devVars, pos0, disk0, trace, last_seek, clientVars >>

\* write(): lines 264-266; a command byte ends whatever the device was doing
FinishWrite ==
    /\ pc = "finish"
    /\ op = "write"
    /\ trace' = Append(trace, Ev("Status", "w", CmdCacheFlush, position))
    /\ status' = Busy
    /\ dev_cmd' = CmdCacheFlush
    /\ dev_left' = 0
    /\ position' = position + Len(buf)
    /\ ret' = Ok(Len(buf))
    /\ pc' = "ret"
    /\ UNCHANGED << op, arg, buf, sector_count, ctx, sector, start_sector, end_sector >>
    /\ UNCHANGED << attached, control, dev_ptr, disk >>
    /\ UNCHANGED << pos0, disk0, last_seek, clientVars >>

\* the call returns to its caller; write_verify moves on (lines 450-459)
Return ==
    /\ pc = "ret"
    /\ pc' = "idle"
    /\ op' = "none"
    /\ arg' = NoArg
    /\ buf' = << >>
    /\ sector_count' = 0
    /\ ctx' = "main"
    /\ sector' = 0
    /\ start_sector' = None
    /\ end_sector' = None
    /\ ret' = NoRet
    /\ pos0' = position
    /\ disk0' = disk
    /\ trace' = << >>
    /\ verify_buf' = IF test # "any" /\ op = "read" THEN buf ELSE verify_buf
    /\ rep' = IF test # "any" /\ op = "read" THEN rep + 1 ELSE rep
    /\ hpc' = IF test = "any" \/ op = "new" THEN hpc
              ELSE IF hpc = "init"
              THEN (IF test = "write_verify" THEN "write" ELSE "read")
              ELSE IF hpc = "write" THEN "seek"
              ELSE IF hpc = "seek" THEN "read"
              ELSE IF rep + 1 >= Reps THEN "done"
              ELSE IF test = "write_verify" THEN "write" ELSE "seek"
    /\ UNCHANGED << position, devVars, last_seek, test, count, write_buf, calls >>
    /\ UNCHANGED guards

\* ------------------------------------------------------------ device
\* the device finishes what keeps it busy: it shows the next sector of a
\* transfer ready, or goes idle
DevReady ==
    /\ attached
    /\ is_set(Busy, status)
    /\ status' = IF dev_cmd \in {CmdRead, CmdWrite} /\ dev_left > 0 THEN RwReady ELSE 0
    /\ dev_cmd' = IF dev_cmd = CmdCacheFlush THEN 0 ELSE dev_cmd
    /\ UNCHANGED << attached, control, dev_ptr, dev_left, disk >>
    /\ UNCHANGED << position, pc, frameVars, pos0, disk0, trace, last_seek, clientVars >>

Next ==
    \/ New
    \/ CallSeek
    \/ CallFlush
    \/ CallRead
    \/ CallWrite
    \/ Program
    \/ WaitBusy
    \/ SnapshotTransfer
    \/ ReadTransfer
    \/ WriteTransfer
    \/ FinishRead
    \/ FinishWrite
    \/ Return
    \/ DevReady
    \/ Lock
    \/ Unlock

Spec == Init /\ [][Next]_vars

\* the processor goes on executing the call it is in (each wait_status loop
\* reads the status port again and again), and the device finishes what
\* keeps it busy
FairSpec ==
    /\ Spec
    /\ WF_vars(Program)
    /\ WF_vars(WaitBusy)
    /\ WF_vars(SnapshotTransfer)
    /\ WF_vars(ReadTransfer)
    /\ WF_vars(WriteTransfer)
    /\ WF_vars(FinishRead)
    /\ WF_vars(FinishWrite)
    /\ WF_vars(DevReady)

TypeOK ==
    /\ position \in Nat
    /\ pc \in {"boot", "aborted", "idle", "program", "wait_busy", "wait_rw",
               "finish", "ret", "panic"}
    /\ \A a \in DOMAIN disk : disk[a] \in 0 .. U8 - 1
    /\ \A j \in 1 .. Len(buf) : buf[j] \in 0 .. U8 - 1
    /\ sector_count \in 0 .. U8 - 1

\* ------------------------------------------------------------ claims
IsCmd(e, c) == e.port = "Status" /\ e.dir = "w" /\ e.val = c
IsData(e, dir) == e.port = "Data" /\ e.dir = dir
Completed(o) == pc = "ret" /\ op = o

\* C1: after a write of a non-empty buffer at cursor c has completed, every
\* disk byte outside [c, c + L) has the value it had before the call
C1_WritePreserves ==
    (Completed("write") /\ Len(buf) >= 1) =>
        \A a \in DOMAIN disk :
            (a < pos0 \/ a >= pos0 + Len(buf)) => disk[a] = disk0[a]

\* a completed write strictly inside one sector, which changed the disk
C1_Witness ==
    /\ Completed("write")
    /\ Len(buf) >= 1
    /\ pos0 % SectorSize # 0
    /\ (pos0 + Len(buf)) % SectorSize # 0
    /\ pos0 \div SectorSize = (pos0 + Len(buf)) \div SectorSize
    /\ disk # disk0

\* C2: in tests::write_verify from any starting cursor, the read that follows
\* write(buf) and seek(Current(-L)) yields verify == buf, in every round
C2_RoundTrip ==
    (Completed("read") /\ test = "write_verify") => buf = write_buf

\* C3: read(buf) returns L and leaves buf[j] equal to the disk byte at
\* address c + j for every j in [0, L)
C3_ReadFills ==
    /\ op = "read" => pc # "panic"
    /\ Completed("read") =>
        /\ ret = Ok(Len(buf))
        /\ \A j \in 0 .. Len(buf) - 1 : buf[j + 1] = DiskAt(disk0, pos0 + j)

\* the sectors that cover [c, c + length)
MinSectors(c, length) ==
    ((c + length - 1) \div SectorSize) - (c \div SectorSize) + 1

\* C4: for every cursor c and length >= 1, min_required_sector_count is the
\* minimum number of whole sectors covering [c, c + length)
C4_SectorCount ==
    (op \in {"read", "write"} /\ Len(buf) >= 1) =>
        sector_count = MinSectors(pos0, Len(buf))

\* C5: a successful seek sets the cursor and returns it (Start always,
\* Current when cursor + by >= 0); the cursor equals the value the last
\* successful seek returned for as long as only seeks follow it
C5_SeekSets ==
    /\ (Completed("seek") /\ arg.kind = "Start") =>
            (ret = Ok(arg.off) /\ position = arg.off)
    /\ (Completed("seek") /\ arg.kind = "Current" /\ pos0 + arg.off >= 0) =>
            (ret = Ok(pos0 + arg.off) /\ position = pos0 + arg.off)
    /\ last_seek # -1 => position = last_seek

\* a relative seek backwards from a non-zero cursor that succeeded
C5_Witness ==
    /\ Completed("seek")
    /\ arg.kind = "Current"
    /\ arg.off < 0
    /\ ret.tag = "ok"
    /\ position > 0

\* C6: a failing seek (Current below zero, End always) returns an error and
\* leaves the cursor unchanged; the cursor is never negative
C6_SeekFails ==
    /\ (Completed("seek") /\ arg.kind = "Current" /\ pos0 + arg.off < 0) =>
            (ret = Err /\ position = pos0)
    /\ (Completed("seek") /\ arg.kind = "End") => (ret = Err /\ position = pos0)
    /\ position >= 0

\* a relative seek below zero from a non-zero cursor
C6_Witness ==
    /\ Completed("seek")
    /\ arg.kind = "Current"
    /\ pos0 > 0
    /\ pos0 + arg.off < 0

\* C7: a completed read or write of length L leaves the cursor at its
\* pre-call value plus L, and the WRITE command is programmed with the cursor
\* back at its pre-call value c, for the LBA floor(c / SectorSize)
C7_CursorAdvance ==
    /\ (Completed("read") \/ Completed("write")) => position = pos0 + Len(buf)
    /\ op = "write" =>
        \A i \in DOMAIN trace :
            IsCmd(trace[i], CmdWrite) =>
                /\ trace[i].pos = pos0
                /\ TaskFileLba(SubSeq(trace, i - 6, i)) = pos0 \div SectorSize

\* a completed write that took both snapshots, away from sector 0
C7_Witness ==
    /\ Completed("write")
    /\ start_sector # None
    /\ end_sector # None
    /\ pos0 \div SectorSize > 0
    /\ (pos0 + Len(buf)) \div SectorSize > pos0 \div SectorSize

\* C8: read and write never fail: they return Ok(L) for every length, zero
\* included, never abort, and never read the error register
C8_NoFailure ==
    /\ pc # "panic"
    /\ (Completed("read") \/ Completed("write")) => ret = Ok(Len(buf))
    /\ \A i \in DOMAIN trace : trace[i].port # "ErrFeatures"

\* C9: a write that returns has issued exactly one CACHE FLUSH, after its
\* last data word and before the cursor advanced; flush() accesses no
\* register and changes neither the cursor nor the disk
C9_FlushOnce ==
    /\ Completed("write") =>
        /\ Cardinality({i \in DOMAIN trace : IsCmd(trace[i], CmdCacheFlush)}) = 1
        /\ IsCmd(trace[Len(trace)], CmdCacheFlush)
        /\ trace[Len(trace)].pos = pos0
        /\ position = pos0 + Len(buf)
        /\ Cardinality({i \in DOMAIN trace : IsData(trace[i], "w")})
              = sector_count * SectorWords
    /\ (op = "write" /\ pc \notin {"ret", "panic"}) =>
        \A i \in DOMAIN trace : ~IsCmd(trace[i], CmdCacheFlush)
    /\ Completed("flush") =>
        (trace = << >> /\ position = pos0 /\ disk = disk0 /\ ret = Ok(0))

\* a completed write of two sectors or more
C9_Witness ==
    /\ Completed("write")
    /\ sector_count >= 2
    /\ \E i \in DOMAIN trace : IsData(trace[i], "w")

\* C10: new reads the status register first; on 0xFF it aborts, without a
\* handle and without writing the control register; on any other value it
\* writes zero to the control register and returns a handle with cursor 0
C10_New ==
    /\ pc = "boot" => (trace = << >> /\ control = -1)
    /\ pc = "aborted" =>
        /\ trace = << Ev("Status", "r", Floating, 0) >>
        /\ control = -1
    /\ Completed("new") =>
        /\ Len(trace) = 2
        /\ trace[1].port = "Status" /\ trace[1].dir = "r" /\ trace[1].val # Floating
        /\ trace[2] = Ev("Control", "w", 0, 0)
        /\ control = 0
        /\ position = 0
    /\ status = Floating => pc \in {"boot", "aborted"}

\* construction aborted on a floating bus
C10_Witness == pc = "aborted" /\ status = Floating /\ control = -1

\* the places of the trace where command byte c was written
CmdIdx(c) == {i \in DOMAIN trace : IsCmd(trace[i], c)}

\* the sectors write() has to snapshot, in the order it does: the sector of
\* c if c is unaligned, the sector of c + len if c + len is unaligned
SnapshotLbas(c, len) ==
    (IF c % SectorSize # 0 THEN << c \div SectorSize >> ELSE << >>)
        \o (IF (c + len) % SectorSize # 0
            THEN << (c + len) \div SectorSize >>
            ELSE << >>)

\* C13: the READ commands of a write(buf) at cursor c are its boundary
\* snapshots and nothing else: one single-sector READ of sector
\* floor(c / SectorSize) iff c is unaligned, one of sector
\* floor((c + L) / SectorSize) iff c + L is unaligned, none if both are
\* aligned, and all of them have delivered their sector before the WRITE
\* command byte is written
C13_Snapshots ==
    op = "write" =>
        LET reads == CmdIdx(CmdRead)
            want == SnapshotLbas(pos0, Len(buf))
        IN  /\ Cardinality(reads) <= Len(want)
            /\ \A i \in reads :
                LET k == Cardinality({j \in reads : j <= i})
                IN  /\ TaskFileLba(SubSeq(trace, i - 6, i)) = want[k]
                    /\ TaskFileCount(SubSeq(trace, i - 6, i)) = 1
            /\ \A w \in CmdIdx(CmdWrite) :
                /\ Cardinality(reads) = Len(want)
                /\ \A i \in reads : i < w
                /\ Cardinality({j \in 1 .. w : IsData(trace[j], "r")})
                      = Len(want) * SectorWords

\* a completed write that took snapshots of two different sectors
C13_Witness ==
    /\ Completed("write")
    /\ Len(SnapshotLbas(pos0, Len(buf))) = 2
    /\ SnapshotLbas(pos0, Len(buf))[1] # SnapshotLbas(pos0, Len(buf))[2]
    /\ Cardinality(CmdIdx(CmdRead)) = 2

\* C14: a zero-length transfer requires 0 sectors: at every cursor
\* min_required_sector_count(0) is 0, and read or write of an empty buffer
\* moves no data word to or from the device
C14_ZeroLength ==
    (op \in {"read", "write"} /\ Len(buf) = 0) =>
        /\ sector_count = 0
        /\ \A i \in DOMAIN trace : trace[i].port # "Data"

\* the closed form of the sector count as the specification words it
ClosedFormCount(c, length) ==
    LET alignedStart == c % SectorSize = 0
        alignedLength == length % SectorSize = 0
        b == IF alignedLength /\ ~alignedStart THEN 1
             ELSE IF ~alignedLength
                       /\ (c % SectorSize) + (length % SectorSize) > SectorSize
             THEN 1
             ELSE 0
    IN  IF alignedStart /\ alignedLength /\ length # 0
        THEN length \div SectorSize
        ELSE (length \div SectorSize) + 1 + b

AmendedCount(c, length) ==
    LET alignedStart == c % SectorSize = 0
        wholeLength == length % SectorSize = 0 /\ length # 0
        b == IF wholeLength /\ ~alignedStart THEN 1
             ELSE IF ~wholeLength
                       /\ (c % SectorSize) + (length % SectorSize) > SectorSize
             THEN 1
             ELSE 0
    IN  ((length \div SectorSize) % U8) + (IF wholeLength THEN 0 ELSE 1) + b

IsWrite(e, port) == e.port = port /\ e.dir = "w"
IsPoll(e) == e.port = "Status" /\ e.dir = "r"
TaskFilePorts == {"DriveSel", "SectorCount", "LbaLow", "LbaMid", "LbaHigh"}

\* C16: every READ and WRITE command byte comes right after this sequence
\* of port accesses: a status poll that saw the busy bit clear, then writes
\* to drive-select, sector-count, LBA-low, LBA-mid and LBA-high, in that
\* order; no task-file register is written after the command byte until the
\* next such poll
C16_TaskFileOrder ==
    \A i \in CmdIdx(CmdRead) \cup CmdIdx(CmdWrite) :
        /\ i >= 7
        /\ IsPoll(trace[i - 6]) /\ ~is_set(Busy, trace[i - 6].val)
        /\ IsWrite(trace[i - 5], "DriveSel")
        /\ IsWrite(trace[i - 4], "SectorCount")
        /\ IsWrite(trace[i - 3], "LbaLow")
        /\ IsWrite(trace[i - 2], "LbaMid")
        /\ IsWrite(trace[i - 1], "LbaHigh")
        /\ i < Len(trace) => trace[i + 1].port \notin TaskFilePorts
        /\ \A j \in DOMAIN trace :
            trace[j].port \in TaskFilePorts =>
                \E k \in CmdIdx(CmdRead) \cup CmdIdx(CmdWrite) : j \in k - 5 .. k - 1

\* a WRITE command programmed after two snapshot READs in the same call
C16_Witness ==
    /\ op = "write"
    /\ Cardinality(CmdIdx(CmdRead)) = 2
    /\ \E w \in CmdIdx(CmdWrite) : \A r \in CmdIdx(CmdRead) : r < w

\* the first and the last place of the run of data-port accesses around i
RunStart(i) ==
    CHOOSE s \in 1 .. i :
        /\ \A j \in s .. i : trace[j].port = "Data"
        /\ s = 1 \/ trace[s - 1].port # "Data"
RunEnd(i) ==
    CHOOSE e \in i .. Len(trace) :
        /\ \A j \in i .. e : trace[j].port = "Data"
        /\ e = Len(trace) \/ trace[e + 1].port # "Data"

\* C17: the data port is accessed in whole sectors only: every run of
\* data-word accesses follows a poll that saw the busy bit clear and then a
\* poll that saw data-ready set, and is exactly SectorWords words long, in
\* one direction; no call ends with a sector partially transferred
C17_WholeSectors ==
    \A i \in DOMAIN trace :
        trace[i].port = "Data" =>
            LET s == RunStart(i)
                e == RunEnd(i)
            IN  /\ s >= 3
                /\ IsPoll(trace[s - 1]) /\ is_set(RwReady, trace[s - 1].val)
                /\ IsPoll(trace[s - 2]) /\ ~is_set(Busy, trace[s - 2].val)
                /\ e - s + 1 = SectorWords
                /\ \A j \in s .. e : trace[j].dir = trace[s].dir

\* C18: each command byte, CACHE FLUSH included, is written only after a
\* status poll that saw the busy bit clear, with no command byte and no
\* data-word transfer between that poll and the command
C18_PollBeforeCommand ==
    \A i \in CmdIdx(CmdRead) \cup CmdIdx(CmdWrite) \cup CmdIdx(CmdCacheFlush) :
        \E j \in 1 .. i - 1 :
            /\ IsPoll(trace[j]) /\ ~is_set(Busy, trace[j].val)
            /\ \A k \in j + 1 .. i - 1 :
                /\ trace[k].port # "Data"
                /\ ~(trace[k].port = "Status" /\ trace[k].dir = "w")

\* C19: for every cursor whose sector index lba = floor(cursor / SectorSize)
\* is below 2^28, the task file programmed before a READ or WRITE holds
\* exactly lba: drive-select is 0xF0 + (lba div 2^24), LBA-low, -mid and
\* -high are bytes 0, 1 and 2 of lba, the four fields put together again
\* give lba, and the upper nibble of drive-select is 0xF
C19_LbaEncoding ==
    \A i \in CmdIdx(CmdRead) \cup CmdIdx(CmdWrite) :
        LET lba == trace[i].pos \div SectorSize
            sel == trace[i - 5].val
            low == trace[i - 3].val
            mid == trace[i - 2].val
            high == trace[i - 1].val
        IN  /\ sel \div 16 = 15
            /\ lba < Lba28 =>
                /\ sel = 240 + (lba \div 16777216)
                /\ low = lba % 256
                /\ mid = (lba \div 256) % 256
                /\ high = (lba \div 65536) % 256
                /\ ((sel % 16) * 16777216) + (high * 65536) + (mid * 256) + low
                      = lba
                /\ pc = "wait_busy" /\ i = Len(trace) =>
                      dev_ptr = lba * SectorSize

\* a READ programmed for the last sector 28 bits can address
C19_Witness ==
    /\ op = "read"
    /\ pos0 \div SectorSize = Lba28 - 1
    /\ \E i \in CmdIdx(CmdRead) :
        /\ trace[i - 5].val = 255
        /\ trace[i - 3].val = 255
        /\ trace[i - 2].val = 255
        /\ trace[i - 1].val = 255

\* C12: reading is repeatable and leaves the disk alone: a read at cursor c,
\* a seek back to c and a second read of the same length, with no write in
\* between, yield the same bytes, and the disk after any read is the disk
\* before it
C12_ReadRepeatable ==
    /\ (Completed("read") /\ test = "read_twice" /\ rep >= 1) =>
            buf = verify_buf
    /\ op = "read" => disk = disk0

\* a read or write has been called and has not come to its end
InCall ==
    /\ op \in {"read", "write"}
    /\ pc \in {"program", "wait_busy", "wait_rw", "finish"}

\* C20: the status polls are the only places a read or write waits, and
\* they wait without a limit: the call passes a poll for the busy bit only
\* on a status with busy clear and a poll for data-ready only on a status
\* with data-ready set, it never yields an error, and with a device that
\* finishes every command every call returns
C20_Termination ==
    /\ [][(InCall /\ pc \in {"program", "wait_busy"} /\ pc' # pc)
            => ~is_set(Busy, status)]_vars
    /\ [][(InCall /\ pc = "wait_rw" /\ pc' # pc)
            => is_set(RwReady, status)]_vars
    /\ []((Completed("read") \/ Completed("write")) => ret.tag = "ok")
    /\ InCall ~> pc = "ret"

\* a call is between its entry and its return to the caller
InFlight == op \in {"seek", "read", "write", "flush"} /\ pc # "idle"

InMainLoop ==
    /\ op = "write"
    /\ ctx = "main"
    /\ pc \in {"wait_busy", "wait_rw", "finish", "ret"}

\* C21: for every cursor c and buffer length L >= 1 the per-word match of
\* read and write is safe: no arm of it aborts, every buffer index used is in
\* [0, L), the start snapshot is unwrapped only for words with idx <= -1,
\* which occur only with c unaligned, where the snapshot exists, and the
\* end snapshot only for words with idx + 1 >= L, which occur only with
\* c + L unaligned, where the snapshot exists and is the sector that holds
\* the word
C21_SafeIndices ==
    (op \in {"read", "write"} /\ Len(buf) >= 1) =>
        /\ pc # "panic"
        /\ \A s \in 0 .. sector_count - 1, w \in 0 .. SectorWords - 1 :
            LET idx == word_index(s, w, pos0 % SectorSize)
                L == Len(buf)
                a == write_access(idx, L)
                last == (pos0 + L) \div SectorSize
            IN  IF op = "read"
                THEN read_access(idx, L) \subseteq 0 .. L - 1
                ELSE /\ a.buf \subseteq 0 .. L - 1
                     /\ a.start =>
                         /\ idx <= -1
                         /\ pos0 % SectorSize # 0
                         /\ InMainLoop => start_sector # None
                     /\ a.end =>
                         /\ idx + 1 >= L
                         /\ (pos0 + L) % SectorSize # 0
                         /\ (pos0 \div SectorSize) + s = last
                         /\ InMainLoop =>
                             /\ end_sector # None
                             /\ unwrap(end_sector)
                                    = DevSector(disk0, last * SectorSize)

\* a completed write over more than one sector whose first word came from
\* the start snapshot and whose last word came from the end snapshot
C21_Witness ==
    /\ Completed("write")
    /\ sector_count >= 2
    /\ write_access(word_index(0, 0, pos0 % SectorSize), Len(buf)).start
    /\ write_access(word_index(sector_count - 1, SectorWords - 1,
                               pos0 % SectorSize), Len(buf)).end
    /\ disk # disk0

====
